---- MODULE Spec2Model ----
(***************************************************************************)
(* ErnieDualEncoder (paddlenlp/transformers/semantic_indexing/modeling.py) *)
(* as a state machine: one constructed model object, the calls a caller    *)
(* makes on it, and the generators returned by get_semantic_embedding.     *)
(*                                                                         *)
(* Tensors are sequences: a batch of token ids is a sequence of token      *)
(* sequences, an embedding batch is a sequence of integer vectors.         *)
(* Python indices are 0-based, sequence indices are 1-based: Python row i  *)
(* is element i + 1.                                                       *)
(***************************************************************************)
EXTENDS Integers, Sequences, FiniteSets, TLC, Bags

\* ---------------------------------------------------------------- bounds
\* largest local batch size B
MaxBatch == 2
\* largest number of cooperating training processes W
MaxWorld == 2
\* largest number of batches a data loader holds
MaxLoader == 2
\* forwards blocked in all_gather at the same time, each in its own thread
MaxWaiting == 1
\* number of operations a behaviour of SpecBounded performs
MaxOps == 5

\* ------------------------------------------------------- Python values
\* Python's None as an encoder reference. Encoder instances are numbered
\* from 1 in order of construction.
None == 0
\* An absent number: the dropout argument left at None, and self.rank,
\* which forward reads and the class assigns nowhere, so that the
\* attribute does not exist until a caller assigns it.
Absent == -1
\* None as a model name argument (model names are strings)
NoName == "None"

QueryModelName == "ernie-base-cn-query-encoder"
TitleModelName == "ernie-base-cn-title-encoder"
ModelNames == {QueryModelName, TitleModelName}

\* ------------------------------------------------- pretrained backbone
\* The ERNIE backbone is imported from ..ernie.modeling. It is
\* represented by a per-token lookup: the weights loaded under a model
\* name give every token id one hidden vector.
Pretrained(name) ==
    IF name = QueryModelName
    THEN << <<1, 0, 0>>, <<1, 1, 0>> >>
    ELSE << <<0, 1, 0>>, <<1, 1, 0>> >>

\* self.ernie(input_ids, ...): sequence_output[b][p] is the hidden vector
\* of the token at position p of sequence b.
ernie(name, input_ids) ==
    [b \in 1..Len(input_ids) |->
        [p \in 1..Len(input_ids[b]) |-> Pretrained(name)[input_ids[b][p] + 1]]]

\* ErnieEncoder.forward: pooled_output = sequence_output[:, 0].
ErnieEncoderForward(name, input_ids) ==
    LET sequence_output == ernie(name, input_ids)
    IN  [b \in 1..Len(input_ids) |-> sequence_output[b][1]]

\* ------------------------------------------------------ tensor algebra
RECURSIVE SumTo(_, _)
SumTo(f, n) == IF n = 0 THEN 0 ELSE f[n] + SumTo(f, n - 1)

\* sum over the last axis of the elementwise product of two vectors
VecDot(u, v) == SumTo([d \in 1..Len(u) |-> u[d] * v[d]], Len(u))

\* paddle.sum(x * y, axis=-1) on two [B, D] tensors of the same shape
SumProduct(x, y) == [j \in 1..Len(x) |-> VecDot(x[j], y[j])]

\* paddle.dot(x, y) on two [B, D] tensors: the batched inner product
PaddleDot(x, y) == [j \in 1..Len(x) |-> VecDot(x[j], y[j])]

\* paddle.matmul(x, y, transpose_y=True): [B, D] x [C, D] -> [B, C]
MatmulTransposeY(x, y) ==
    [i \in 1..Len(x) |-> [c \in 1..Len(y) |-> VecDot(x[i], y[c])]]

\* paddle.concat(x=[a, b], axis=0)
Concat(a, b) == a \o b

RECURSIVE ConcatList(_)
\* paddle.concat(x=tensor_list, axis=0)
ConcatList(tensor_list) ==
    IF tensor_list = <<>> THEN <<>>
    ELSE Concat(Head(tensor_list), ConcatList(Tail(tensor_list)))

\* paddle.arange(start, end): the integers start .. end - 1, in order
Arange(start, end) ==
    IF end <= start THEN <<>> ELSE [k \in 1..(end - start) |-> start + k - 1]

\* ---------------------------------------------------------------- inputs
\* sample token-id sequences (two tokens each, ids 0 and 1)
Seqs == << <<0, 1>>, <<1, 0>> >>

\* a batch of B sequences starting at sample s and cycling through Seqs
BatchOf(B, s) == [i \in 1..B |-> Seqs[((s + i - 2) % Len(Seqs)) + 1]]

BatchSizes == 1..MaxBatch
Starts == 1..Len(Seqs)

\* a data loader of N batches whose sizes cycle through 1..MaxBatch (so a
\* long enough loader serves batches of every size); every item is the
\* pair (input_ids, token_type_ids)
LoaderOf(N) ==
    [k \in 1..N |->
        LET B == ((k - 1) % MaxBatch) + 1
        IN  [input_ids |-> BatchOf(B, k),
             token_type_ids |-> [i \in 1..B |-> <<0, 0>>]]]

\* ----------------------------------------------------------------- state
VARIABLES
    init_args,        \* the arguments __init__ was called with
    query_ernie,      \* self.query_ernie: an encoder instance
    title_ernie,      \* self.title_ernie: an encoder instance or None
    encoders,         \* encoders[e]: the model name instance e was loaded from
    use_cross_batch,  \* self.use_cross_batch
    dropout_p,        \* rate of self.dropout, in percent
    training,         \* Layer.training: cleared by self.eval()
    grad_enabled,     \* the framework's gradient mode, off inside paddle.no_grad()
    rank,             \* self.rank, Absent while the attribute is missing
    world,            \* size of the distributed process group
    proc_rank,        \* this process's rank in the group
    call,             \* the call that has just returned, in whatever thread
    ret,              \* what it returned or raised
    waiting,          \* the forwards blocked in all_gather, a bag of (call, locals)
    gens,             \* the generator objects the caller holds, by handle
    ops               \* number of operations performed so far, counted by SpecBounded

vars == <<init_args, query_ernie, title_ernie, encoders, use_cross_batch, dropout_p,
          training, grad_enabled, rank, world, proc_rank, call, ret, waiting, gens, ops>>

model_vars == <<init_args, query_ernie, title_ernie, encoders, use_cross_batch, dropout_p>>
env_vars == <<world, proc_rank>>
gen_vars == <<gens>>
mode_vars == <<training, grad_enabled>>
call_vars == <<call, ret, waiting>>

\* The caller's handles for generator objects: it holds at most these two
\* generators at a time.
GenIds == {"g1", "g2"}

\* A generator object of get_semantic_embedding:
\*   st               "none" (handle free), "created", "suspended", "done",
\*                    or the line the body is at: "for", "body", "yield"
\*   data_loader      the iterable it was created with
\*   pulled           number of batches it has taken from the loader
\*   embedded         number of batches it has embedded
\*   requests         number of next() calls made on it
\*   text_embeddings  the local of its body
\*   yielded          what its next() calls have delivered, in order
\*   orig             the gradient mode its paddle.no_grad() saved on entry
NewGenerator(loader) ==
    [st |-> "created", data_loader |-> loader, pulled |-> 0, embedded |-> 0,
     requests |-> 0, text_embeddings |-> <<>>, yielded |-> <<>>, orig |-> TRUE]

NoGenerator == [NewGenerator(<<>>) EXCEPT !.st = "none"]

\* ----------------------------------------------------------- construction
\* the default rate of nn.Dropout in __init__, 0.1, in percent
DefaultDropout == 10

\* nn.Dropout(dropout if dropout is not None else 0.1)
DropoutRate(dropout) == IF dropout # Absent THEN dropout ELSE DefaultDropout

\* __init__ with the two branches in the wrong order: a title model name
\* wins over share_parameters.
InitTitleFirst(query_model_name_or_path, title_model_name_or_path, share_parameters, dropout, cross_batch) ==
    LET q == 1
        towers ==
            IF title_model_name_or_path # NoName
            THEN [title_ernie |-> 2,
                  encoders |-> <<query_model_name_or_path, title_model_name_or_path>>]
            ELSE IF share_parameters
            THEN [title_ernie |-> q, encoders |-> <<query_model_name_or_path>>]
            ELSE [title_ernie |-> None, encoders |-> <<query_model_name_or_path>>]
    IN  [query_ernie |-> q,
         title_ernie |-> towers.title_ernie,
         encoders |-> towers.encoders,
         use_cross_batch |-> cross_batch,
         dropout_p |-> DropoutRate(dropout)]

\* ErnieDualEncoder.__init__: the encoders it loads and the fields it
\* sets. ErnieEncoder.from_pretrained builds a new instance on every call.
\* self.rank is not among the fields.
DualEncoderInit(query_model_name_or_path, title_model_name_or_path, share_parameters, dropout, cross_batch) ==
    LET q == 1
        towers ==
            IF share_parameters
            THEN [title_ernie |-> q, encoders |-> <<query_model_name_or_path>>]
            ELSE IF title_model_name_or_path # NoName
            THEN [title_ernie |-> 2,
                  encoders |-> <<query_model_name_or_path, title_model_name_or_path>>]
            ELSE [title_ernie |-> None, encoders |-> <<query_model_name_or_path>>]
    IN  [query_ernie |-> q,
         title_ernie |-> towers.title_ernie,
         encoders |-> towers.encoders,
         use_cross_batch |-> cross_batch,
         dropout_p |-> DropoutRate(dropout)]

NoCall == [op |-> "none"]
NoRet == [exc |-> "", value |-> <<>>, invoked |-> <<>>]

Init ==
    /\ \E title \in ModelNames \cup {NoName}, share \in BOOLEAN,
          cross_batch \in BOOLEAN :
          \* the dropout argument is left at its default, None
          LET m == DualEncoderInit(QueryModelName, title, share, Absent, cross_batch)
          IN  /\ init_args = [query_model_name_or_path |-> QueryModelName,
                              title_model_name_or_path |-> title,
                              share_parameters |-> share]
              /\ query_ernie = m.query_ernie
              /\ title_ernie = m.title_ernie
              /\ encoders = m.encoders
              /\ use_cross_batch = m.use_cross_batch
              /\ dropout_p = m.dropout_p
    /\ training = TRUE
    /\ grad_enabled = TRUE
    /\ rank = Absent
    /\ world \in 1..MaxWorld
    /\ proc_rank \in 0..(world - 1)
    /\ call = NoCall
    /\ ret = NoRet
    /\ waiting = EmptyBag
    /\ gens = [g \in GenIds |-> NoGenerator]
    /\ ops = 0

\* ------------------------------------------------- get_pooled_embedding
Raise(exc, invoked) == [exc |-> exc, value |-> <<>>, invoked |-> invoked]
Return(value, invoked) == [exc |-> "", value |-> value, invoked |-> invoked]

\* one application of an encoder instance to a batch, as recorded in
\* ret.invoked
Invocation(e, input_ids) == [encoder |-> e, input_ids |-> input_ids]

\* get_pooled_embedding without the assertion: a missing title encoder
\* falls back to the query encoder.
GetPooledEmbeddingNoAssert(input_ids, is_query) ==
    LET e == IF is_query \/ title_ernie = None THEN query_ernie ELSE title_ernie
    IN  Return(ErnieEncoderForward(encoders[e], input_ids),
               << Invocation(e, input_ids) >>)

\* ErnieDualEncoder.get_pooled_embedding(input_ids, ..., is_query)
GetPooledEmbedding(input_ids, is_query) ==
    IF ~((is_query /\ query_ernie # None) \/ (~is_query /\ title_ernie # None))
    THEN Raise("AssertionError", <<>>)
    ELSE IF is_query
    THEN Return(ErnieEncoderForward(encoders[query_ernie], input_ids),
                << Invocation(query_ernie, input_ids) >>)
    ELSE Return(ErnieEncoderForward(encoders[title_ernie], input_ids),
                << Invocation(title_ernie, input_ids) >>)

\* ------------------------------------------------------------ cosine_sim
\* cosine_sim with the title side left at the default is_query=True
CosineSimQuerySide(query_input_ids, title_input_ids) ==
    LET q == GetPooledEmbedding(query_input_ids, TRUE)
        t == GetPooledEmbedding(title_input_ids, TRUE)
    IN  Return(SumProduct(q.value, t.value), q.invoked \o t.invoked)

\* ErnieDualEncoder.cosine_sim(query_input_ids, title_input_ids, ...)
CosineSim(query_input_ids, title_input_ids) ==
    LET query_cls_embedding == GetPooledEmbedding(query_input_ids, TRUE)
        title_cls_embedding == GetPooledEmbedding(title_input_ids, FALSE)
    IN  IF query_cls_embedding.exc # ""
        THEN Raise(query_cls_embedding.exc, query_cls_embedding.invoked)
        ELSE IF title_cls_embedding.exc # ""
        THEN Raise(title_cls_embedding.exc,
                   query_cls_embedding.invoked \o title_cls_embedding.invoked)
        ELSE Return(SumProduct(query_cls_embedding.value, title_cls_embedding.value),
                    query_cls_embedding.invoked \o title_cls_embedding.invoked)

\* --------------------------------------------------------------- forward
\* The candidate tensor a process contributes: lines 167-176 applied to
\* its positive and negative title batches.
LocalCandidates(pos_title_cls_embedding, neg_title_cls_embedding) ==
    Concat(pos_title_cls_embedding, neg_title_cls_embedding)

\* where a candidate row comes from: the process, the batch and the row
Src(r, kind, B) == [i \in 1..B |-> [rank |-> r, kind |-> kind, row |-> i - 1]]

\* the title batches the process of rank r feeds its replica of the model
PeerPos(r, B) == BatchOf(B, r + 1)
PeerNeg(r, B) == BatchOf(B, r + 2)

\* paddle.distributed.all_gather(tensor_list, tensor): tensor_list
\* receives the tensor of every process of the group, in rank order.
AllGather(local, peers) ==
    [r1 \in 1..world |-> IF r1 - 1 = proc_rank THEN local ELSE peers[r1]]

\* the tensor the replica on rank r1 - 1 hands to all_gather: the same
\* code on its own batches
PeerCandidates(B) ==
    [r1 \in 1..world |->
        LocalCandidates(GetPooledEmbedding(PeerPos(r1 - 1, B), TRUE).value,
                        GetPooledEmbedding(PeerNeg(r1 - 1, B), TRUE).value)]

PeerSrc(B) ==
    [r1 \in 1..world |->
        LocalCandidates(Src(r1 - 1, "pos", B), Src(r1 - 1, "neg", B))]

\* labels = paddle.arange(batch_size * self.rank * 2,
\*                        batch_size * (self.rank * 2 + 1)),
\* reshaped to one column
Labels(batch_size) ==
    LET labels == Arange(batch_size * rank * 2, batch_size * (rank * 2 + 1))
    IN  [i \in 1..Len(labels) |-> << labels[i] >>]

\* the outputs of prediction mode with the negative title scored
PredictionOutputsNeg(query_cls_embedding, pos_title_cls_embedding, neg_title_cls_embedding) ==
    [probs |-> PaddleDot(query_cls_embedding, neg_title_cls_embedding),
     q_rep |-> query_cls_embedding,
     p_rep |-> pos_title_cls_embedding]

\* the outputs of prediction mode, lines 179-185
PredictionOutputs(query_cls_embedding, pos_title_cls_embedding, neg_title_cls_embedding) ==
    [probs |-> PaddleDot(query_cls_embedding, pos_title_cls_embedding),
     q_rep |-> query_cls_embedding,
     p_rep |-> pos_title_cls_embedding]

\* paddle.metric.accuracy and F.cross_entropy are framework functions:
\* each result is kept as the application itself.
Accuracy(logits, labels) == [fn |-> "accuracy", input |-> logits, label |-> labels]
CrossEntropy(logits, labels) == [fn |-> "cross_entropy", input |-> logits, label |-> labels]

\* lines 188-190: all_gather and the concatenation of what it delivers
Gathered(local, peers) == ConcatList(AllGather(local, peers))

\* forward up to line 176: the three embeddings and the local candidates.
\* All three get_pooled_embedding calls leave is_query at its default,
\* True (lines 163-173).
ForwardEmbed(query_input_ids, pos_title_input_ids, neg_title_input_ids) ==
    LET query == GetPooledEmbedding(query_input_ids, TRUE)
        pos == GetPooledEmbedding(pos_title_input_ids, TRUE)
        neg == GetPooledEmbedding(neg_title_input_ids, TRUE)
        batch_size == Len(query_input_ids)
    IN  [exc |-> IF query.exc # "" THEN query.exc
                 ELSE IF pos.exc # "" THEN pos.exc ELSE neg.exc,
         invoked |-> IF query.exc # "" THEN query.invoked
                     ELSE IF pos.exc # "" THEN query.invoked \o pos.invoked
                     ELSE query.invoked \o pos.invoked \o neg.invoked,
         query_cls_embedding |-> query.value,
         pos_title_cls_embedding |-> pos.value,
         neg_title_cls_embedding |-> neg.value,
         all_title_cls_embedding |-> LocalCandidates(pos.value, neg.value),
         candidate_src |-> LocalCandidates(Src(proc_rank, "pos", batch_size),
                                           Src(proc_rank, "neg", batch_size))]

\* forward from line 192: similarity matrix, labels from self.rank as it
\* is when the line runs, accuracy and loss.
ForwardScore(query_cls_embedding, all_title_cls_embedding, candidate_src, invoked) ==
    LET logits == MatmulTransposeY(query_cls_embedding, all_title_cls_embedding)
        batch_size == Len(query_cls_embedding)
        labels == Labels(batch_size)
    IN  IF rank = Absent
        THEN Raise("AttributeError", invoked)
        ELSE [exc |-> "",
              value |-> [loss |-> CrossEntropy(logits, labels),
                         accuracy |-> Accuracy(logits, labels)],
              invoked |-> invoked,
              candidate_src |-> candidate_src]

\* ---------------------------------------------------------------- actions
\* the result of the last call has been taken: the next call can be followed
AtCaller == call = NoCall

CallGetPooledEmbedding ==
    /\ AtCaller
    /\ \E B \in BatchSizes, s \in Starts, is_query \in BOOLEAN :
          /\ call' = [op |-> "get_pooled_embedding",
                      input_ids |-> BatchOf(B, s), is_query |-> is_query]
          /\ ret' = GetPooledEmbedding(BatchOf(B, s), is_query)
    /\ UNCHANGED <<model_vars, env_vars, gen_vars, mode_vars, rank, waiting>>

CallCosineSim ==
    /\ AtCaller
    /\ \E B \in BatchSizes, sq \in Starts, st \in Starts :
          /\ call' = [op |-> "cosine_sim",
                      query_input_ids |-> BatchOf(B, sq),
                      title_input_ids |-> BatchOf(B, st)]
          /\ ret' = CosineSim(BatchOf(B, sq), BatchOf(B, st))
    /\ UNCHANGED <<model_vars, env_vars, gen_vars, mode_vars, rank, waiting>>

\* ErnieDualEncoder.forward(query_input_ids, pos_title_input_ids,
\*                          neg_title_input_ids, is_prediction, ...)
\* up to its return, or up to the all_gather of line 189, where the
\* calling thread blocks until every process of the group has contributed.
CallForward ==
    /\ AtCaller
    /\ \E B \in BatchSizes, sq \in Starts, sp \in Starts, sn \in Starts,
          is_prediction \in BOOLEAN :
          LET f == ForwardEmbed(BatchOf(B, sq), BatchOf(B, sp), BatchOf(B, sn))
              c == [op |-> "forward",
                    query_input_ids |-> BatchOf(B, sq),
                    pos_title_input_ids |-> BatchOf(B, sp),
                    neg_title_input_ids |-> BatchOf(B, sn),
                    is_prediction |-> is_prediction]
          IN  IF f.exc # ""
              THEN /\ call' = c
                   /\ ret' = Raise(f.exc, f.invoked)
                   /\ UNCHANGED waiting
              ELSE IF is_prediction
              THEN /\ call' = c
                   /\ ret' = Return(PredictionOutputs(f.query_cls_embedding,
                                                      f.pos_title_cls_embedding,
                                                      f.neg_title_cls_embedding),
                                    f.invoked)
                   /\ UNCHANGED waiting
              ELSE IF use_cross_batch
              THEN /\ BagCardinality(waiting) < MaxWaiting
                   /\ waiting' = waiting (+) SetToBag({[call |-> c, frame |-> f]})
                   /\ UNCHANGED <<call, ret>>
              ELSE /\ call' = c
                   /\ ret' = ForwardScore(f.query_cls_embedding,
                                          f.all_title_cls_embedding,
                                          f.candidate_src, f.invoked)
                   /\ UNCHANGED waiting
    /\ UNCHANGED <<model_vars, env_vars, gen_vars, mode_vars, rank>>

\* all_gather returns (lines 189-190) in one of the blocked threads and
\* its forward runs to its end (lines 192-208) with the fields as they
\* are now.
ForwardGathered ==
    /\ AtCaller
    /\ \E w \in BagToSet(waiting) :
          LET frame == w.frame
              batch_size == Len(frame.query_cls_embedding)
          IN  /\ call' = w.call
              /\ ret' = ForwardScore(frame.query_cls_embedding,
                                     Gathered(frame.all_title_cls_embedding,
                                              PeerCandidates(batch_size)),
                                     Gathered(frame.candidate_src, PeerSrc(batch_size)),
                                     frame.invoked)
              /\ waiting' = waiting (-) SetToBag({w})
    /\ UNCHANGED <<model_vars, env_vars, gen_vars, mode_vars, rank>>

\* the caller has looked at the result of the last call and goes on
TakeResult ==
    /\ call # NoCall
    /\ call' = NoCall
    /\ ret' = NoRet
    /\ UNCHANGED <<model_vars, env_vars, gen_vars, mode_vars, rank, waiting>>

\* The class never assigns self.rank. The only way forward's read of it
\* succeeds is an assignment by the caller, model.rank = <this process's
\* rank in the group>, at any moment: before the call or from another
\* thread while it waits in all_gather.
AssignRank ==
    /\ rank = Absent
    /\ rank' = proc_rank
    /\ UNCHANGED <<model_vars, env_vars, gen_vars, mode_vars, call_vars>>

\* ------------------------------------------------ get_semantic_embedding
\* get_semantic_embedding written without laziness: the first batch is
\* taken and embedded when the generator is created.
CallGetSemanticEmbeddingEager ==
    /\ \E g \in GenIds, N \in 0..MaxLoader :
          /\ gens[g].st = "none"
          /\ gens' = [gens EXCEPT ![g] =
                [NewGenerator(LoaderOf(N)) EXCEPT
                    !.pulled = IF N > 0 THEN 1 ELSE 0,
                    !.embedded = IF N > 0 THEN 1 ELSE 0,
                    !.text_embeddings =
                        IF N > 0
                        THEN GetPooledEmbedding(LoaderOf(N)[1].input_ids, TRUE).value
                        ELSE <<>>]]
    /\ UNCHANGED <<model_vars, env_vars, mode_vars, rank, call_vars>>

\* Calling a generator function (line 95) builds the generator object and
\* runs none of its body: no field and no mode changes, and the generators
\* the caller already holds stay as they are.
CallGetSemanticEmbedding ==
    /\ \E g \in GenIds, N \in 0..MaxLoader :
          /\ gens[g].st = "none"
          /\ gens' = [gens EXCEPT ![g] = NewGenerator(LoaderOf(N))]
    /\ UNCHANGED <<model_vars, env_vars, mode_vars, rank, call_vars>>

\* A generator is closed or collected. One suspended at the yield of
\* line 106 gets GeneratorExit there and leaves the with block of line 97,
\* which restores the gradient mode it saved on entry.
DropGenerator ==
    /\ \E g \in GenIds :
          /\ gens[g].st \in {"created", "suspended", "done"}
          /\ grad_enabled' =
                IF gens[g].st = "suspended" THEN gens[g].orig ELSE grad_enabled
          /\ gens' = [gens EXCEPT ![g] = NoGenerator]
    /\ UNCHANGED <<model_vars, env_vars, training, rank, call_vars>>

\* next(generator) by its consumer, whatever the other threads and
\* generators are doing. The first one enters the body:
\* self.eval() and paddle.no_grad() (lines 96-97), which saves the
\* gradient mode and turns it off.
GenNext ==
    /\ \E g \in GenIds :
          /\ gens[g].st \in {"created", "suspended"}
          /\ training' = IF gens[g].st = "created" THEN FALSE ELSE training
          /\ grad_enabled' = IF gens[g].st = "created" THEN FALSE ELSE grad_enabled
          /\ gens' = [gens EXCEPT ![g] =
                [@ EXCEPT !.st = "for",
                          !.requests = @ + 1,
                          !.orig = IF gens[g].st = "created"
                                   THEN grad_enabled ELSE @]]
    /\ UNCHANGED <<model_vars, env_vars, rank, call_vars>>

\* next(generator) on a finished generator raises StopIteration again.
GenNextDone ==
    /\ \E g \in GenIds :
          /\ gens[g].st = "done"
          /\ gens[g].requests < Len(gens[g].data_loader) + 2
          /\ gens' = [gens EXCEPT ![g].requests = @ + 1]
    /\ UNCHANGED <<model_vars, env_vars, mode_vars, rank, call_vars>>

\* line 98, `for batch_data in data_loader`: take the next batch, or leave
\* the loop and the with block and finish (StopIteration at the consumer).
GenFor ==
    /\ \E g \in GenIds :
          /\ gens[g].st = "for"
          /\ \/ /\ gens[g].pulled < Len(gens[g].data_loader)
                /\ gens' = [gens EXCEPT ![g] =
                      [@ EXCEPT !.pulled = @ + 1, !.st = "body"]]
                /\ UNCHANGED grad_enabled
             \/ /\ gens[g].pulled >= Len(gens[g].data_loader)
                /\ gens' = [gens EXCEPT ![g].st = "done"]
                /\ grad_enabled' = gens[g].orig
    /\ UNCHANGED <<model_vars, env_vars, training, rank, call_vars>>

\* lines 99-104: embed the batch just taken with the default is_query=True
GenEmbed ==
    /\ \E g \in GenIds :
          /\ gens[g].st = "body"
          /\ LET batch_data == gens[g].data_loader[gens[g].pulled]
                 input_ids == batch_data.input_ids
                 e == GetPooledEmbedding(input_ids, TRUE)
             IN  IF e.exc # ""
                 THEN /\ gens' = [gens EXCEPT ![g].st = "done"]
                      /\ grad_enabled' = gens[g].orig
                 ELSE /\ gens' = [gens EXCEPT ![g] =
                            [@ EXCEPT !.text_embeddings = e.value,
                                      !.embedded = @ + 1,
                                      !.st = "yield"]]
                      /\ UNCHANGED grad_enabled
    /\ UNCHANGED <<model_vars, env_vars, training, rank, call_vars>>

\* line 106, `yield text_embeddings`: hand the batch to the consumer and
\* suspend inside the loop.
GenYield ==
    /\ \E g \in GenIds :
          /\ gens[g].st = "yield"
          /\ gens' = [gens EXCEPT ![g] =
                [@ EXCEPT !.yielded = Append(@, gens[g].text_embeddings),
                          !.st = "suspended"]]
    /\ UNCHANGED <<model_vars, env_vars, mode_vars, rank, call_vars>>

\* --------------------------------------------------------- specifications
\* the calls that return a value, and the caller's assignment of the rank
NextCalls ==
    \/ CallGetPooledEmbedding
    \/ CallCosineSim
    \/ CallForward
    \/ ForwardGathered
    \/ TakeResult
    \/ AssignRank

\* the life of the generators of get_semantic_embedding
NextCorpus ==
    \/ CallGetSemanticEmbedding
    \/ DropGenerator
    \/ GenNext
    \/ GenNextDone
    \/ GenFor
    \/ GenEmbed
    \/ GenYield

Next == NextCalls \/ NextCorpus

\* every interleaving of the calls and the generators
Spec == Init /\ [][Next /\ UNCHANGED ops]_vars

\* the value-returning calls alone
SpecCalls == Init /\ [][NextCalls /\ UNCHANGED ops]_vars

\* the generators alone
SpecCorpus == Init /\ [][NextCorpus /\ UNCHANGED ops]_vars

\* every interleaving of the calls and the generators, up to MaxOps
\* operations after construction
NextBounded ==
    /\ ops < MaxOps
    /\ Next
    /\ ops' = ops + 1

SpecBounded == Init /\ [][NextBounded]_vars

\* ================================================================ claims
\* the call that has just returned is a call of op
ReturnedFrom(op) == call.op = op
TrainingForward == ReturnedFrom("forward") /\ ~call.is_prediction
PredictionForward == ReturnedFrom("forward") /\ call.is_prediction

\* the embedding batch encoder instance e produces for input_ids
EmbeddingBy(e, input_ids) == ErnieEncoderForward(encoders[e], input_ids)

\* the dot product of two vectors of the hidden size, written out
Dot3(u, v) == u[1] * v[1] + u[2] * v[2] + u[3] * v[3]

\* C1: a training-mode forward makes exactly three encoder invocations:
\* the query batch goes to the query tower, the positive-title and the
\* negative-title batch go to the title tower, so with independent towers
\* the query encoder is never applied to a title batch.
C1_TitleBatchesUseTitleTower ==
    (TrainingForward /\ title_ernie # None) =>
        /\ Len(ret.invoked) = 3
        /\ ret.invoked[1] = Invocation(query_ernie, call.query_input_ids)
        /\ ret.invoked[2] = Invocation(title_ernie, call.pos_title_input_ids)
        /\ ret.invoked[3] = Invocation(title_ernie, call.neg_title_input_ids)

\* C2: a training-mode forward with local batch size B on rank r scores
\* 2*B*W candidates with cross-batch sharing and 2*B without, gives query
\* i the label 2*B*r + i, and the candidate at that index is the positive
\* title of query i of this process.
C2_LabelsPointAtPositives ==
    (TrainingForward /\ ret.exc = "") =>
        LET B == Len(call.query_input_ids)
            logits == ret.value.loss.input
            labels == ret.value.loss.label
        IN  /\ Len(logits) = B
            /\ Len(labels) = B
            /\ \A i \in 1..B :
                  /\ Len(logits[i]) = IF use_cross_batch THEN 2 * B * world ELSE 2 * B
                  /\ labels[i] = << 2 * B * proc_rank + (i - 1) >>
                  /\ labels[i][1] + 1 \in 1..Len(ret.candidate_src)
                  /\ ret.candidate_src[labels[i][1] + 1] =
                        [rank |-> proc_rank, kind |-> "pos", row |-> i - 1]

\* C3: on a model without a title tower every title-side operation,
\* cosine_sim and forward in either mode, raises the precondition error
\* instead of returning a result. (Calls cut short by the missing rank
\* attribute are left aside: they are the subject of C9.)
C3_TitleSideFailsFast ==
    (/\ title_ernie = None
     /\ ReturnedFrom("cosine_sim") \/ ReturnedFrom("forward")
     /\ ret.exc # "AttributeError") =>
        ret.exc = "AssertionError"

\* C4: get_pooled_embedding(is_query=False) without a title encoder raises
\* the assertion error before any encoder runs; with is_query=True it never
\* raises and applies the query encoder; with is_query=False and a title
\* encoder it applies the title encoder.
C4_GetPooledEmbeddingDispatch ==
    ReturnedFrom("get_pooled_embedding") =>
        /\ (~call.is_query /\ title_ernie = None) =>
              /\ ret.exc = "AssertionError"
              /\ ret.invoked = <<>>
        /\ call.is_query =>
              /\ ret.exc = ""
              /\ ret.invoked = << Invocation(query_ernie, call.input_ids) >>
              /\ ret.value = EmbeddingBy(query_ernie, call.input_ids)
        /\ (~call.is_query /\ title_ernie # None) =>
              /\ ret.exc = ""
              /\ ret.invoked = << Invocation(title_ernie, call.input_ids) >>
              /\ ret.value = EmbeddingBy(title_ernie, call.input_ids)

C4_Witness ==
    /\ ReturnedFrom("get_pooled_embedding")
    /\ ~call.is_query
    /\ title_ernie = None
    /\ ret.exc = "AssertionError"

\* C5: in every state, whatever calls were made, the towers are the ones
\* construction chose: the query encoder is the first instance; with
\* share_parameters the title encoder is that same instance, title model
\* name or not; without it and with a title model name it is a second
\* instance loaded from that name; otherwise it is absent.
C5_TowerConfiguration ==
    /\ query_ernie = 1
    /\ encoders[query_ernie] = init_args.query_model_name_or_path
    /\ init_args.share_parameters => title_ernie = query_ernie
    /\ (~init_args.share_parameters /\ init_args.title_model_name_or_path # NoName) =>
          /\ title_ernie # None
          /\ title_ernie # query_ernie
          /\ encoders[title_ernie] = init_args.title_model_name_or_path
    /\ (~init_args.share_parameters /\ init_args.title_model_name_or_path = NoName) =>
          title_ernie = None

C5_Witness ==
    /\ init_args.share_parameters
    /\ init_args.title_model_name_or_path = TitleModelName
    /\ title_ernie = query_ernie
    /\ gens["g1"].st = "body"
    /\ ~training
    /\ rank = proc_rank
    /\ TrainingForward
    /\ ret.exc = ""

\* C6: forward(is_prediction=True) returns exactly probs, q_rep and p_rep:
\* q_rep is the embedding of the query batch, p_rep the embedding of the
\* positive-title batch, probs their dot product position by position; no
\* loss, no accuracy, nothing from the negative batch, with or without
\* use_cross_batch.
C6_PredictionOutputs ==
    PredictionForward =>
        /\ ret.exc = ""
        /\ DOMAIN ret.value = {"probs", "q_rep", "p_rep"}
        /\ ret.invoked[1].input_ids = call.query_input_ids
        /\ ret.invoked[2].input_ids = call.pos_title_input_ids
        /\ ret.value.q_rep = EmbeddingBy(ret.invoked[1].encoder, call.query_input_ids)
        /\ ret.value.p_rep = EmbeddingBy(ret.invoked[2].encoder, call.pos_title_input_ids)
        /\ Len(ret.value.probs) = Len(call.query_input_ids)
        /\ \A j \in 1..Len(call.query_input_ids) :
              ret.value.probs[j] = Dot3(ret.value.q_rep[j], ret.value.p_rep[j])

C6_Witness ==
    /\ PredictionForward
    /\ use_cross_batch
    /\ world > 1
    /\ DOMAIN ret.value = {"probs", "q_rep", "p_rep"}
    /\ call.neg_title_input_ids # call.pos_title_input_ids
    /\ Len(call.query_input_ids) > 1

\* C7: every generator of get_semantic_embedding is lazy and complete: a
\* batch is taken from the loader and embedded only after the next() that
\* asks for it, never more than one batch beyond what was delivered; the
\* k-th item delivered is the query-side embedding of the k-th batch; a
\* finished generator has delivered exactly as many items as the loader
\* holds (none for an empty loader).
C7_LazyInOrder ==
    \A g \in GenIds :
        LET G == gens[g]
        IN  /\ G.pulled <= G.requests
            /\ G.embedded <= G.pulled
            /\ Len(G.yielded) <= G.embedded
            /\ G.pulled <= Len(G.yielded) + 1
            /\ G.st = "created" => (G.pulled = 0 /\ G.embedded = 0 /\ G.yielded = <<>>)
            /\ Len(G.yielded) <= Len(G.data_loader)
            /\ \A k \in 1..Len(G.yielded) :
                  G.yielded[k] = EmbeddingBy(query_ernie, G.data_loader[k].input_ids)
            /\ G.st = "suspended" => Len(G.yielded) = G.requests
            /\ G.st = "done" => Len(G.yielded) = Len(G.data_loader)

C7_Witness ==
    /\ gens["g1"].st = "done"
    /\ Len(gens["g1"].data_loader) >= 2
    /\ Len(gens["g1"].yielded) = Len(gens["g1"].data_loader)
    /\ gens["g1"].requests = Len(gens["g1"].data_loader) + 1
    /\ gens["g2"].st = "suspended"
    /\ Len(gens["g2"].yielded) = 1

\* C8: cosine_sim returns one value per batch position, the raw dot
\* product of the query-encoder embedding of query j and the title-encoder
\* embedding of title j: [1,0,0].[0,1,0] = 0 and [1,1,0].[1,1,0] = 2.
C8_CosineSimIsDotProduct ==
    (ReturnedFrom("cosine_sim") /\ title_ernie # None) =>
        LET q == EmbeddingBy(query_ernie, call.query_input_ids)
            t == EmbeddingBy(title_ernie, call.title_input_ids)
        IN  /\ ret.exc = ""
            /\ Len(ret.value) = Len(call.query_input_ids)
            /\ \A j \in 1..Len(call.query_input_ids) :
                  /\ ret.value[j] = Dot3(q[j], t[j])
                  /\ (q[j] = <<1, 0, 0>> /\ t[j] = <<0, 1, 0>>) => ret.value[j] = 0
                  /\ (q[j] = <<1, 1, 0>> /\ t[j] = <<1, 1, 0>>) => ret.value[j] = 2

C8_Witness ==
    /\ ReturnedFrom("cosine_sim")
    /\ title_ernie \notin {None, query_ernie}
    /\ EmbeddingBy(query_ernie, call.query_input_ids) = << <<1, 0, 0>>, <<1, 1, 0>> >>
    /\ EmbeddingBy(title_ernie, call.title_input_ids) = << <<0, 1, 0>>, <<1, 1, 0>> >>
    /\ ret.value = <<0, 2>>

\* C9: the rank forward reads is defined on every constructed model and
\* is this process's rank, so a training-mode forward reaches the label
\* assignment instead of failing on a missing attribute.
C9_RankDefined ==
    TrainingForward => (rank = proc_rank /\ ret.exc # "AttributeError")

\* C10: every label handed to accuracy and cross_entropy by a
\* training-mode forward is an index into the candidate axis of the
\* similarity matrix, on every rank and with either use_cross_batch.
C10_LabelsInRange ==
    (TrainingForward /\ ret.exc = "") =>
        /\ ret.value.loss.label = ret.value.accuracy.label
        /\ \A i \in 1..Len(ret.value.loss.label) :
              /\ 0 <= ret.value.loss.label[i][1]
              /\ ret.value.loss.label[i][1] < Len(ret.value.loss.input[i])

====
